---- MODULE Spec2Model ----
(***************************************************************************)
(* Model of chromadb_cli.py: a directory walker that upserts text files    *)
(* into a persistent collection in batches, and a query dispatcher.        *)
(*                                                                         *)
(* A name (file or directory name, extension) is a tuple of one-character  *)
(* strings, a path is a tuple of names.  The embedding store is external:  *)
(* it is a function from record id to [document, metadata], changed only   *)
(* by upsert.  Verbose per-file output is not modelled.                    *)
(***************************************************************************)
EXTENDS Integers, Sequences, FiniteSets, TLC

(* ------------------------------ constants ------------------------------ *)

DEFAULT_DB_DIR == <<".","c","h","r","o","m","a","d","b">>

BINARY_EXTENSIONS ==
    {<<".","p","n","g">>, <<".","j","p","g">>, <<".","j","p","e","g">>, <<".","g","i","f">>,
     <<".","b","m","p">>, <<".","i","c","o">>, <<".","s","v","g">>, <<".","w","e","b","p">>,
     <<".","m","p","3">>, <<".","m","p","4">>, <<".","w","a","v">>, <<".","a","v","i">>,
     <<".","m","o","v">>, <<".","m","k","v">>, <<".","f","l","a","c">>,
     <<".","z","i","p">>, <<".","t","a","r">>, <<".","g","z">>, <<".","b","z","2">>,
     <<".","x","z">>, <<".","7","z">>, <<".","r","a","r">>,
     <<".","p","d","f">>, <<".","d","o","c">>, <<".","d","o","c","x">>, <<".","x","l","s">>,
     <<".","x","l","s","x">>, <<".","p","p","t">>, <<".","p","p","t","x">>,
     <<".","e","x","e">>, <<".","d","l","l">>, <<".","s","o">>, <<".","d","y","l","i","b">>,
     <<".","o">>, <<".","a">>,
     <<".","p","y","c">>, <<".","p","y","o">>, <<".","c","l","a","s","s">>, <<".","w","a","s","m">>,
     <<".","b","i","n">>, <<".","d","a","t">>, <<".","d","b">>, <<".","s","q","l","i","t","e">>,
     <<".","t","t","f">>, <<".","o","t","f">>, <<".","w","o","f","f">>, <<".","w","o","f","f","2">>,
     <<".","e","o","t">>}

SKIP_DIRS ==
    {<<".","g","i","t">>, <<".","h","g">>, <<".","s","v","n">>,
     <<"_","_","p","y","c","a","c","h","e","_","_">>, <<".","m","y","p","y","_","c","a","c","h","e">>,
     <<".","p","y","t","e","s","t","_","c","a","c","h","e">>,
     <<"n","o","d","e","_","m","o","d","u","l","e","s">>, <<".","t","o","x">>,
     <<".","v","e","n","v">>, <<"v","e","n","v">>, <<"e","n","v">>,
     DEFAULT_DB_DIR}

MAX_FILE_SIZE == 1000000

BATCH_SIZE == 50

(* Outcomes of the library calls that are not ordinary values.  Sizes are  *)
(* >= 0 and decoded documents are > 0, so the codes below are distinct     *)
(* from every ordinary value.                                              *)
OSError == -1

UnicodeDecodeError == -2

None == 0

(* ------------------------------- bounds -------------------------------- *)

MaxRuns == 2

MaxBulk == 124

(* --------------------------- pure functions ---------------------------- *)

Range(s) == {s[i] : i \in 1..Len(s)}

UpperChars == <<"A","B","C","D","E","F","G","H","I","J","K","L","M",
                "N","O","P","Q","R","S","T","U","V","W","X","Y","Z">>

LowerChars == <<"a","b","c","d","e","f","g","h","i","j","k","l","m",
                "n","o","p","q","r","s","t","u","v","w","x","y","z">>

(* str.lower() on the characters a name can hold *)
lower(s) ==
    [i \in 1..Len(s) |->
        IF \E k \in 1..Len(UpperChars) : UpperChars[k] = s[i]
        THEN LowerChars[CHOOSE k \in 1..Len(UpperChars) : UpperChars[k] = s[i]]
        ELSE s[i]]

(* the extension taken from the first dot of the name *)
splitext_first(filepath) ==
    LET n   == filepath[Len(filepath)]
        dots == {i \in 2..Len(n) : n[i] = "."}
    IN  IF dots = {} THEN <<>>
        ELSE SubSeq(n, CHOOSE i \in dots : \A j \in dots : i <= j, Len(n))

(* os.path.splitext(filepath)[1]: the extension starts at the last dot of  *)
(* the last component, and leading dots of that component start no         *)
(* extension.                                                              *)
splitext(filepath) ==
    LET n   == filepath[Len(filepath)]
        dots == {i \in 1..Len(n) : n[i] = "."}
    IN  IF dots = {} THEN <<>>
        ELSE LET dotIndex == CHOOSE i \in dots : \A j \in dots : j <= i
             IN  IF \E k \in 1..(dotIndex - 1) : n[k] # "."
                 THEN SubSeq(n, dotIndex, Len(n))
                 ELSE <<>>

(* os.path.join(root, name) *)
join(root, name) == Append(root, name)

(* os.path.relpath(filepath, directory), filepath below directory *)
relpath(filepath, dir) == SubSeq(filepath, Len(dir) + 1, Len(filepath))

(* hashlib.sha256(...).hexdigest(): an injective tag of its argument *)
_file_id(path) == [sha256 |-> path]

(* an id that also hashes the content *)
DocId_content(rel, content, filepath) == _file_id(<<rel, <<<<content>>>>>>)

DocId(rel, content, filepath) == _file_id(rel)

(* the filtered list bound to a new name, the walk's list left as it was *)
PruneDirs_rebound(dirs) == dirs

PruneDirs(dirs) == SelectSeq(dirs, LAMBDA d : d \notin SKIP_DIRS)

(* the collection replaced by the batch *)
Upsert_replace(coll, b_ids, b_docs, b_metas) ==
    [i \in Range(b_ids) |->
        LET k == CHOOSE k \in 1..Len(b_ids) : b_ids[k] = i
        IN  [document |-> b_docs[k], metadata |-> b_metas[k]]]

(* collection.upsert: insert or overwrite by id, the last entry of a       *)
(* batch winning.                                                          *)
Upsert(coll, b_ids, b_docs, b_metas) ==
    [i \in (DOMAIN coll) \cup Range(b_ids) |->
        IF i \in Range(b_ids)
        THEN LET k == CHOOSE k \in 1..Len(b_ids) :
                        /\ b_ids[k] = i
                        /\ \A j \in 1..Len(b_ids) : b_ids[j] = i => j <= k
             IN  [document |-> b_docs[k], metadata |-> b_metas[k]]
        ELSE coll[i]]

(* the batch test with a strict comparison *)
ShouldFlush_strict(n) == n > BATCH_SIZE

ShouldFlush(n) == n >= BATCH_SIZE

(* ------------------------------- state --------------------------------- *)

VARIABLES
    directory,    \* absolute path of the indexed directory
    tree,         \* the directory tree: relative dir path -> [dirs, files]
    store,        \* the persistent collection: id -> [document, metadata]
    pc,           \* position of the running invocation, "idle" when none
    args,         \* parsed command line of the running invocation
    stack,        \* os.walk: directories still to visit
    root,         \* os.walk: directory being visited
    files,        \* os.walk: file names of root not yet processed
    ids,          \* walk_and_index buffers
    documents,
    metadatas,
    upserts,      \* the collection.upsert calls of this invocation, in order
    queries,      \* the collection.query calls of this invocation, in order
    total,        \* the count printed by walk_and_index, <<>> before
    printed,      \* number of result lines printed by query_collection
    stderr,       \* messages written to standard error
    exitCode,     \* <<>> while running, <<code>> once the process ended
    runs,         \* completed index runs
    dirty,        \* the tree's files changed since the last completed run
    countBefore   \* collection count when the current index run started

vars == <<directory, tree, store, pc, args, stack, root, files, ids, documents,
          metadatas, upserts, queries, total, printed, stderr, exitCode, runs,
          dirty, countBefore>>

disk == <<directory, tree>>

buffers == <<ids, documents, metadatas>>

walker == <<stack, root, files>>

output == <<queries, total, printed, stderr, exitCode>>

(* ----------------------------- file system ----------------------------- *)

File(name, size, statable, readable, utf8, content) ==
    [name |-> name, size |-> size, statable |-> statable,
     readable |-> readable, utf8 |-> utf8, content |-> content]

TextFile(name, content) == File(name, 10, TRUE, TRUE, TRUE, content)

FileAt(filepath) ==
    LET rel == relpath(filepath, directory)
        d   == SubSeq(rel, 1, Len(rel) - 1)
    IN  CHOOSE f \in Range(tree[d].files) : f.name = rel[Len(rel)]

(* os.path.getsize: the size, or OSError when the file cannot be stat-ed *)
getsize(filepath) ==
    IF FileAt(filepath).statable THEN FileAt(filepath).size ELSE OSError

(* the extension compared without lower() *)
IsBinaryExt_cased(ext) == ext \in BINARY_EXTENSIONS

IsBinaryExt(ext) == lower(ext) \in BINARY_EXTENSIONS

(* the size threshold taken as exclusive *)
SizeRejected_ge(size) == size = 0 \/ size >= MAX_FILE_SIZE

SizeRejected(size) == size = 0 \/ size > MAX_FILE_SIZE

_should_skip_file(filepath) ==
    IF IsBinaryExt(splitext(filepath)) THEN TRUE
    ELSE LET size == getsize(filepath)
         IN  IF size = OSError THEN TRUE ELSE SizeRejected(size)

(* open(..., encoding="utf-8", errors="strict").read(): the decoded text,  *)
(* or the exception it ends with.                                          *)
open_read(filepath) ==
    LET f == FileAt(filepath)
    IN  IF ~f.readable THEN OSError
        ELSE IF ~f.utf8 THEN UnicodeDecodeError
        ELSE f.content

(* only OSError caught *)
ReadTextCatches_os == {OSError}

ReadTextCatches == {UnicodeDecodeError, OSError}

(* None on a caught exception; an exception that is not caught propagates  *)
(* (a negative result).                                                    *)
_read_text(filepath) ==
    LET r == open_read(filepath)
    IN  IF r \in ReadTextCatches THEN None ELSE r

(* ---------------------------- command line ----------------------------- *)

NoQuery == [given |-> FALSE, text |-> <<>>]

QueryTexts == {<<>>, <<"c","a","t">>}

NumResults == {1, 5}

IndexArgs ==
    {[index |-> TRUE, query |-> NoQuery, num_results |-> 5, isdir |-> d] :
        d \in BOOLEAN}

QueryArgs ==
    {[index |-> FALSE, query |-> [given |-> TRUE, text |-> t],
      num_results |-> n, isdir |-> TRUE] : t \in QueryTexts, n \in NumResults}

Args == IndexArgs \cup QueryArgs

NoArgs == [index |-> FALSE, query |-> NoQuery, num_results |-> 5, isdir |-> TRUE]

(* truth value of args.query: None and the empty string are false *)
Truthy(q) == q.given /\ Len(q.text) > 0

(* -------------------------------- trees -------------------------------- *)

RECURSIVE SetToSeq(_)
SetToSeq(S) ==
    IF S = {} THEN <<>>
    ELSE LET x == CHOOSE x \in S : TRUE IN <<x>> \o SetToSeq(S \ {x})

Dir(dirs, fs) == [dirs |-> dirs, files |-> fs]

N_docs == <<"d","o","c","s">>

N_pkg == <<"p","k","g">>

N_node_modules == <<"n","o","d","e","_","m","o","d","u","l","e","s">>

N_venv == <<".","v","e","n","v">>

N_x_txt == <<"x",".","t","x","t">>

N_r_md == <<"r",".","m","d">>

N_a_txt == <<"a",".","t","x","t">>

(* The tree every behaviour of Spec starts from: a text file in the root,  *)
(* a text file inside every excluded directory of the root, an ordinary    *)
(* directory docs, and docs/node_modules/pkg with a text file.             *)
BaseTree ==
    LET excluded == SetToSeq(SKIP_DIRS \ {DEFAULT_DB_DIR})
        top      == excluded \o <<N_docs, DEFAULT_DB_DIR>>
    IN  [d \in {<<>>, <<N_docs>>, <<N_docs, N_node_modules>>,
                <<N_docs, N_node_modules, N_pkg>>}
               \cup {<<e>> : e \in SKIP_DIRS} |->
            IF d = <<>> THEN Dir(top, <<TextFile(N_r_md, 1)>>)
            ELSE IF d = <<N_docs>> THEN Dir(<<N_node_modules>>, <<>>)
            ELSE IF d = <<N_docs, N_node_modules>> THEN Dir(<<N_pkg>>, <<>>)
            ELSE Dir(<<>>, <<TextFile(N_x_txt, 1)>>)]

(* The files a user creates, rewrites or removes between invocations: in   *)
(* the root a.txt in every state the per-file filters tell apart, in docs  *)
(* valid text under names that exercise the extension filter.              *)
CandidateFiles(d) ==
    IF d = <<>> THEN
        {TextFile(N_a_txt, 1), TextFile(N_a_txt, 2),
         File(N_a_txt, 0, TRUE, TRUE, TRUE, 1),
         File(N_a_txt, MAX_FILE_SIZE, TRUE, TRUE, TRUE, 1),
         File(N_a_txt, MAX_FILE_SIZE + 1, TRUE, TRUE, TRUE, 1),
         File(N_a_txt, 10, FALSE, FALSE, TRUE, 1),
         File(N_a_txt, 10, TRUE, FALSE, TRUE, 1),
         File(N_a_txt, 10, TRUE, TRUE, FALSE, 1)}
    ELSE IF d = <<N_docs>> THEN
        {TextFile(<<"b",".","P","N","G">>, 1), TextFile(<<"b",".","p","n","g">>, 1), TextFile(<<".","p","n","g">>, 1),
         TextFile(<<"c",".","t","a","r",".","g","z">>, 1), TextFile(<<"e","n","v">>, 1), TextFile(<<"b",".","t","x","t">>, 1),
         File(<<"b",".","j","p","g">>, MAX_FILE_SIZE, TRUE, TRUE, FALSE, 1)}
    ELSE {}

HomeDirectory == <<<<"h","o","m","e">>, <<"e","n","v">>>>

Directories == {<<<<"h","o","m","e">>, <<"e","n","v">>>>, <<<<"s","r","v">>>>}

(* The trees of SpecBatch: n files, the first half in the root and the     *)
(* rest in docs, and one text file in the excluded directory .venv.        *)
DigitChars == <<"0","1","2","3","4","5","6","7","8","9">>

RECURSIVE Dec(_)
Dec(i) ==
    IF i < 10 THEN <<DigitChars[i + 1]>>
    ELSE Dec(i \div 10) \o <<DigitChars[(i % 10) + 1]>>

upper(s) ==
    [i \in 1..Len(s) |->
        IF \E k \in 1..Len(LowerChars) : LowerChars[k] = s[i]
        THEN UpperChars[CHOOSE k \in 1..Len(LowerChars) : LowerChars[k] = s[i]]
        ELSE s[i]]

BinaryExtSeq == SetToSeq(BINARY_EXTENSIONS)

N_txt == <<".","t","x","t">>

Patterns == {0, 1, 2}

BulkFile(i, p) ==
    LET stem == <<"f">> \o Dec(i)
        ext  == BinaryExtSeq[((i \div 2) % Len(BinaryExtSeq)) + 1]
    IN  IF p = 1 /\ i % 2 = 0
        THEN TextFile(stem \o (IF i % 4 = 0 THEN upper(ext) ELSE ext), 1)
        ELSE IF p = 2 /\ i % 5 = 0 THEN File(stem \o N_txt, 0, TRUE, TRUE, TRUE, 1)
        ELSE IF p = 2 /\ i % 7 = 0 THEN File(stem \o N_txt, 10, TRUE, TRUE, FALSE, 1)
        ELSE IF p = 2 /\ i % 11 = 0 THEN File(stem \o N_txt, 10, FALSE, FALSE, TRUE, 1)
        ELSE IF p = 2 /\ i % 13 = 0 THEN File(stem \o N_txt, 10, TRUE, FALSE, TRUE, 1)
        ELSE IF p = 2 /\ i % 17 = 0
             THEN File(stem \o N_txt, MAX_FILE_SIZE + 1, TRUE, TRUE, TRUE, 1)
        ELSE TextFile(stem \o N_txt, 1)

BulkTree(n, p) ==
    LET half == n \div 2
    IN  [d \in {<<>>, <<N_docs>>, <<N_venv>>} |->
            IF d = <<>>
            THEN Dir(<<N_venv, N_docs>>, [i \in 1..half |-> BulkFile(i, p)])
            ELSE IF d = <<N_docs>>
            THEN Dir(<<>>, [i \in 1..(n - half) |-> BulkFile(half + i, p)])
            ELSE Dir(<<>>, <<TextFile(N_x_txt, 1)>>)]

(* ------------------------------- initial ------------------------------- *)

InitProcess ==
    /\ store = <<>>
    /\ pc = "idle"
    /\ args = NoArgs
    /\ stack = <<>>
    /\ root = <<>>
    /\ files = <<>>
    /\ ids = <<>>
    /\ documents = <<>>
    /\ metadatas = <<>>
    /\ upserts = <<>>
    /\ queries = <<>>
    /\ total = <<>>
    /\ printed = 0
    /\ stderr = <<>>
    /\ exitCode = <<>>
    /\ runs = 0
    /\ dirty = FALSE
    /\ countBefore = 0

Init ==
    /\ directory = HomeDirectory
    /\ tree = BaseTree
    /\ InitProcess

InitBatch ==
    /\ directory = HomeDirectory
    /\ \E n \in 0..MaxBulk, p \in Patterns : tree = BulkTree(n, p)
    /\ InitProcess

(* ------------------------------- actions ------------------------------- *)

(* main: parse the command line, validate the directory, dispatch *)
main(a) ==
    /\ pc = "idle"
    /\ (a.isdir /\ a.index) => runs < MaxRuns
    /\ args' = a
    /\ IF ~a.isdir
       THEN /\ pc' = "exited"
            /\ stderr' = <<"Not a directory">>
            /\ exitCode' = <<2>>
            /\ UNCHANGED <<countBefore, upserts, queries, total, printed>>
       ELSE IF a.index
       THEN /\ pc' = "walk"
            /\ countBefore' = Cardinality(DOMAIN store)
            /\ UNCHANGED <<upserts, queries, total, printed, stderr, exitCode>>
       ELSE IF Truthy(a.query)
       THEN /\ pc' = "query"
            /\ UNCHANGED <<countBefore, upserts, queries, total, printed, stderr,
                           exitCode>>
       ELSE /\ pc' = "exited"
            /\ exitCode' = <<0>>
            /\ UNCHANGED <<countBefore, upserts, queries, total, printed, stderr>>
    /\ stack' = IF a.isdir /\ a.index THEN <<directory>> ELSE <<>>
    /\ UNCHANGED <<disk, store, root, files, buffers, runs, dirty>>

(* os.walk yields the next directory: its sub-directories are pruned in    *)
(* place and the kept ones are visited next, in order, before the rest.    *)
WalkNext ==
    /\ pc = "walk"
    /\ stack # <<>>
    /\ LET top  == Head(stack)
           ent  == tree[relpath(top, directory)]
           dirs == PruneDirs(ent.dirs)
       IN  /\ root' = top
           /\ files' = [i \in 1..Len(ent.files) |-> ent.files[i].name]
           /\ stack' = [i \in 1..Len(dirs) |-> join(top, dirs[i])] \o Tail(stack)
    /\ pc' = "file"
    /\ UNCHANGED <<disk, store, args, buffers, upserts, output, runs, dirty,
                   countBefore>>

(* os.walk is exhausted *)
WalkEnd ==
    /\ pc = "walk"
    /\ stack = <<>>
    /\ pc' = "flush"
    /\ UNCHANGED <<disk, store, args, walker, buffers, upserts, output, runs,
                   dirty, countBefore>>

(* the files of the current directory are exhausted *)
FilesEnd ==
    /\ pc = "file"
    /\ files = <<>>
    /\ pc' = "walk"
    /\ UNCHANGED <<disk, store, args, walker, buffers, upserts, output, runs,
                   dirty, countBefore>>

(* one iteration of the loop over files, up to the batch test *)
ProcessFile ==
    /\ pc = "file"
    /\ files # <<>>
    /\ LET filepath == join(root, Head(files))
           content  == _read_text(filepath)
           rel      == relpath(filepath, directory)
       IN  IF _should_skip_file(filepath)
           THEN /\ pc' = "file"
                /\ UNCHANGED <<buffers, stderr, exitCode>>
           ELSE IF content < None
           THEN /\ pc' = "raised"
                /\ stderr' = <<"Traceback">>
                /\ exitCode' = <<1>>
                /\ UNCHANGED buffers
           ELSE IF content = None
           THEN /\ pc' = "file"
                /\ UNCHANGED <<buffers, stderr, exitCode>>
           ELSE /\ ids' = Append(ids, DocId(rel, content, filepath))
                /\ documents' = Append(documents, content)
                /\ metadatas' = Append(metadatas, [path |-> rel])
                /\ pc' = "batch"
                /\ UNCHANGED <<stderr, exitCode>>
    /\ files' = Tail(files)
    /\ UNCHANGED <<disk, store, args, stack, root, upserts, queries, total,
                   printed, runs, dirty, countBefore>>

(* the batch test that ends an iteration which buffered a record *)
BatchUpsert ==
    /\ pc = "batch"
    /\ IF ShouldFlush(Len(ids))
       THEN /\ store' = Upsert(store, ids, documents, metadatas)
            /\ upserts' = Append(upserts, [ids |-> ids, documents |-> documents,
                                           metadatas |-> metadatas])
            /\ ids' = <<>>
            /\ documents' = <<>>
            /\ metadatas' = <<>>
       ELSE UNCHANGED <<store, upserts, buffers>>
    /\ pc' = "file"
    /\ UNCHANGED <<disk, args, walker, output, runs, dirty, countBefore>>

(* the remainder dropped at the end of the traversal *)
FlushRemaining_dropped ==
    /\ pc = "flush"
    /\ pc' = "count"
    /\ UNCHANGED <<disk, store, args, walker, buffers, upserts, output, runs,
                   dirty, countBefore>>

(* flush what remains after the traversal *)
FlushRemaining ==
    /\ pc = "flush"
    /\ IF ids # <<>>
       THEN /\ store' = Upsert(store, ids, documents, metadatas)
            /\ upserts' = Append(upserts, [ids |-> ids, documents |-> documents,
                                           metadatas |-> metadatas])
       ELSE UNCHANGED <<store, upserts>>
    /\ pc' = "count"
    /\ UNCHANGED <<disk, args, walker, buffers, output, runs, dirty, countBefore>>

(* report the collection count; the invocation ends *)
ReportCount ==
    /\ pc = "count"
    /\ total' = <<Cardinality(DOMAIN store)>>
    /\ exitCode' = <<0>>
    /\ runs' = runs + 1
    /\ dirty' = FALSE
    /\ pc' = "done"
    /\ UNCHANGED <<disk, store, args, walker, buffers, upserts, queries, printed,
                   stderr, countBefore>>

Min(a, b) == IF a < b THEN a ELSE b

(* query_collection: refuse an empty collection, else query and print *)
query_collection ==
    /\ pc = "query"
    /\ IF Cardinality(DOMAIN store) = 0
       THEN /\ stderr' = <<"Collection is empty. Run --index first.">>
            /\ exitCode' = <<1>>
            /\ UNCHANGED <<queries, printed>>
       ELSE /\ queries' = Append(queries, [query_texts |-> <<args.query.text>>,
                                           n_results |-> args.num_results])
            /\ printed' = Min(args.num_results, Cardinality(DOMAIN store))
            /\ exitCode' = <<0>>
            /\ UNCHANGED stderr
    /\ pc' = "exited"
    /\ UNCHANGED <<disk, store, args, walker, buffers, upserts, total, runs,
                   dirty, countBefore>>

(* the process is gone; its memory and output with it *)
Exit ==
    /\ pc \in {"done", "exited", "raised"}
    /\ pc' = "idle"
    /\ args' = NoArgs
    /\ stack' = <<>>
    /\ root' = <<>>
    /\ files' = <<>>
    /\ ids' = <<>>
    /\ documents' = <<>>
    /\ metadatas' = <<>>
    /\ upserts' = <<>>
    /\ queries' = <<>>
    /\ total' = <<>>
    /\ printed' = 0
    /\ stderr' = <<>>
    /\ exitCode' = <<>>
    /\ countBefore' = 0
    /\ UNCHANGED <<disk, store, runs, dirty>>

(* --------------------- the user, between invocations ------------------- *)

VariableFiles(d) == {i \in 1..Len(tree[d].files) : tree[d].files[i] \in CandidateFiles(d)}

AddFile(d, f) ==
    /\ pc = "idle"
    /\ VariableFiles(d) = {}
    /\ tree' = [tree EXCEPT ![d].files = <<f>> \o @]
    /\ dirty' = TRUE
    /\ UNCHANGED <<directory, store, pc, args, walker, buffers, upserts, output,
                   runs, countBefore>>

ModifyFile(d, i, f) ==
    /\ pc = "idle"
    /\ i \in VariableFiles(d)
    /\ f # tree[d].files[i]
    /\ tree' = [tree EXCEPT ![d].files[i] = f]
    /\ dirty' = TRUE
    /\ UNCHANGED <<directory, store, pc, args, walker, buffers, upserts, output,
                   runs, countBefore>>

RemoveFile(d, i) ==
    /\ pc = "idle"
    /\ i \in VariableFiles(d)
    /\ tree' = [tree EXCEPT ![d].files =
                    SubSeq(@, 1, i - 1) \o SubSeq(@, i + 1, Len(@))]
    /\ dirty' = TRUE
    /\ UNCHANGED <<directory, store, pc, args, walker, buffers, upserts, output,
                   runs, countBefore>>

(* the indexed directory is moved, its store with it *)
MoveDirectory ==
    /\ pc = "idle"
    /\ \E d \in Directories \ {directory} : directory' = d
    /\ UNCHANGED <<tree, store, pc, args, walker, buffers, upserts, output, runs,
                   dirty, countBefore>>

(* --------------------------- specifications ---------------------------- *)

IndexRun ==
    \/ WalkNext
    \/ WalkEnd
    \/ FilesEnd
    \/ ProcessFile
    \/ BatchUpsert
    \/ FlushRemaining
    \/ ReportCount

Next ==
    \/ \E a \in Args : main(a)
    \/ IndexRun
    \/ query_collection
    \/ Exit
    \/ \E d \in DOMAIN tree : \E f \in CandidateFiles(d) : AddFile(d, f)
    \/ \E d \in DOMAIN tree : \E i \in VariableFiles(d) :
          \E f \in CandidateFiles(d) : ModifyFile(d, i, f)
    \/ \E d \in DOMAIN tree : \E i \in VariableFiles(d) : RemoveFile(d, i)
    \/ MoveDirectory

Spec == Init /\ [][Next]_vars

NextBatch ==
    \/ \E a \in IndexArgs : main(a)
    \/ IndexRun

SpecBatch == InitBatch /\ [][NextBatch]_vars

(* ------------------- what the properties talk about -------------------- *)

(* the extension of a name: from its last dot on, when a character other   *)
(* than a dot comes before that dot                                        *)
ExtensionOf(name) ==
    LET starts == {i \in 1..Len(name) :
                      name[i] = "." /\ \E k \in 1..(i - 1) : name[k] # "."}
    IN  IF starts = {} THEN <<>>
        ELSE SubSeq(name, CHOOSE i \in starts : \A j \in starts : j <= i, Len(name))

HasBinaryExtension(name) == lower(ExtensionOf(name)) \in BINARY_EXTENSIONS

UnderExcluded(d) == \E i \in 1..Len(d) : d[i] \in SKIP_DIRS

Unreadable(f) == ~f.statable \/ ~f.readable \/ ~f.utf8

PassesFilters(f) ==
    /\ ~HasBinaryExtension(f.name)
    /\ f.size >= 1
    /\ f.size <= 1000000
    /\ ~Unreadable(f)

(* the qualifying files of the tree, as <<directory, position>> *)
QualifyingFiles ==
    UNION {{<<d, i>> : i \in {j \in 1..Len(tree[d].files) :
                                  PassesFilters(tree[d].files[j])}} :
           d \in {e \in DOMAIN tree : ~UnderExcluded(e)}}

Record(rel, content) ==
    [id |-> [sha256 |-> rel], document |-> content, metadata |-> [path |-> rel]]

(* the records of the qualifying files in traversal order: a directory's   *)
(* files first, then its kept sub-directories in listing order             *)
RECURSIVE ExpectedIn(_), ExpectedOver(_, _)
ExpectedIn(d) ==
    LET fs == SelectSeq(tree[d].files, PassesFilters)
    IN  [i \in 1..Len(fs) |-> Record(Append(d, fs[i].name), fs[i].content)]
        \o ExpectedOver(d, SelectSeq(tree[d].dirs, LAMBDA n : n \notin SKIP_DIRS))

ExpectedOver(d, subs) ==
    IF subs = <<>> THEN <<>>
    ELSE ExpectedIn(Append(d, Head(subs))) \o ExpectedOver(d, Tail(subs))

Aligned(b) == Len(b.ids) = Len(b.documents) /\ Len(b.ids) = Len(b.metadatas)

(* the records sent to the store by this invocation, in call order *)
RECURSIVE SentUpTo(_)
SentUpTo(k) ==
    IF k = 0 THEN <<>>
    ELSE SentUpTo(k - 1) \o
         [i \in 1..Len(upserts[k].ids) |->
             [id |-> upserts[k].ids[i], document |-> upserts[k].documents[i],
              metadata |-> upserts[k].metadatas[i]]]

Sent == SentUpTo(Len(upserts))

(* every relative path held by the buffer or sent by this invocation *)
PathsInFlight ==
    {metadatas[i].path : i \in 1..Len(metadatas)}
    \cup UNION {{upserts[k].metadatas[i].path : i \in 1..Len(upserts[k].metadatas)} :
                k \in 1..Len(upserts)}

FileOfPath(rel) ==
    LET d == SubSeq(rel, 1, Len(rel) - 1)
    IN  CHOOSE f \in Range(tree[d].files) : f.name = rel[Len(rel)]

Running == pc \in {"walk", "file", "batch", "flush", "count", "done"}

Finished == pc \in {"count", "done"}

SizeOfBatch(k) == Len(upserts[k].ids)

(* ------------------------------ properties ----------------------------- *)

(* C1: an index run over N qualifying files calls upsert ceil(N/50) times, *)
(* every call but possibly the last with exactly 50 records, the last with *)
(* N mod 50 when that is not zero, never with an empty batch, and the      *)
(* buffer never holds more than 50 records.                                *)
C1_BatchesOfFifty ==
    /\ Len(ids) <= 50
    /\ \A k \in 1..Len(upserts) : SizeOfBatch(k) >= 1 /\ SizeOfBatch(k) <= 50
    /\ \A k \in 1..(Len(upserts) - 1) : SizeOfBatch(k) = 50
    /\ (~Finished /\ upserts # <<>>) => SizeOfBatch(Len(upserts)) = 50
    /\ Finished =>
          LET N == Cardinality(QualifyingFiles)
          IN  /\ Len(upserts) = (N + 49) \div 50
              /\ (N % 50 # 0) => SizeOfBatch(Len(upserts)) = N % 50

C1_Witness ==
    /\ pc = "done"
    /\ Cardinality(QualifyingFiles) = 120
    /\ Len(upserts) = 3
    /\ SizeOfBatch(1) = 50 /\ SizeOfBatch(2) = 50 /\ SizeOfBatch(3) = 20

(* C2: a query invocation (--query TEXT, any text) on a collection with no *)
(* records ends with exit code 1 and the index-first message on standard   *)
(* error, and issues no similarity search.                                 *)
C2_QueryOnEmptyFails ==
    (pc = "exited" /\ args.isdir /\ args.query.given
        /\ Cardinality(DOMAIN store) = 0)
    => /\ exitCode = <<1>>
       /\ stderr = <<"Collection is empty. Run --index first.">>
       /\ queries = <<>>

(* C3: an index run never visits a directory that lies in or beneath a     *)
(* sub-directory with an excluded name, at any depth, and no file beneath  *)
(* one is buffered or sent to the store.                                   *)
C3_ExcludedNeverEntered ==
    /\ Running => ~UnderExcluded(relpath(root, directory))
    /\ \A i \in 1..Len(stack) : ~UnderExcluded(relpath(stack[i], directory))
    /\ \A rel \in PathsInFlight : ~UnderExcluded(SubSeq(rel, 1, Len(rel) - 1))
    /\ \A i \in DOMAIN store :
          ~UnderExcluded(SubSeq(store[i].metadata.path, 1,
                                Len(store[i].metadata.path) - 1))

C3_Witness ==
    /\ pc = "done"
    /\ upserts # <<>>
    /\ \E d \in DOMAIN tree :
          /\ Len(d) = 3
          /\ d[2] \in SKIP_DIRS
          /\ \E i \in 1..Len(tree[d].files) : PassesFilters(tree[d].files[i])
    /\ \E d \in DOMAIN tree :
          /\ Len(d) = 1
          /\ d[1] \in SKIP_DIRS
          /\ \E i \in 1..Len(tree[d].files) : PassesFilters(tree[d].files[i])

C4_OneRecordPerPath ==
    /\ \A i, j \in DOMAIN store :
          store[i].metadata.path = store[j].metadata.path => i = j
    /\ Finished =>
          \A q \in QualifyingFiles :
             LET f == tree[q[1]].files[q[2]]
             IN  \E i \in DOMAIN store :
                    /\ store[i].metadata.path = Append(q[1], f.name)
                    /\ store[i].document = f.content

C4_UnchangedTreeStep ==
    (runs >= 1 /\ ~dirty) =>
        /\ DOMAIN store' = DOMAIN store
        /\ Cardinality(DOMAIN store') = Cardinality(DOMAIN store)

(* C4: the record id is a function of the relative path alone, so the      *)
(* store never holds two records for one path, a finished run leaves each  *)
(* qualifying file's record holding its current content, and a run over a  *)
(* tree unchanged since the previous run leaves the set of ids and the     *)
(* count as they were.                                                     *)
C4_IdempotentReindex == []C4_OneRecordPerPath /\ [][C4_UnchangedTreeStep]_vars

C4_Witness ==
    /\ pc = "count"
    /\ runs = 1
    /\ ~dirty
    /\ upserts # <<>>
    /\ Cardinality(DOMAIN store) = countBefore

(* C5: a file whose extension, compared in any letter case, is in the      *)
(* binary set is never buffered, sent to the store or stored.              *)
C5_BinaryNeverIndexed ==
    /\ \A rel \in PathsInFlight : ~HasBinaryExtension(rel[Len(rel)])
    /\ \A i \in DOMAIN store :
          ~HasBinaryExtension(store[i].metadata.path[Len(store[i].metadata.path)])

C5_Witness ==
    /\ pc = "done"
    /\ upserts # <<>>
    /\ \E i \in 1..Len(tree[<<>>].files) :
          LET f == tree[<<>>].files[i]
          IN  /\ HasBinaryExtension(f.name)
              /\ ExtensionOf(f.name) \notin BINARY_EXTENSIONS
              /\ f.size = 10
              /\ ~Unreadable(f)

(* C6: during an index run no file of size 0 or of more than 1,000,000     *)
(* bytes is buffered or sent, and a file of exactly 1,000,000 bytes that   *)
(* passes the other filters is sent.                                       *)
C6_SizeFilter ==
    /\ Running =>
          \A rel \in PathsInFlight :
             FileOfPath(rel).size # 0 /\ FileOfPath(rel).size <= 1000000
    /\ Finished =>
          \A d \in {e \in DOMAIN tree : ~UnderExcluded(e)} :
             \A i \in 1..Len(tree[d].files) :
                LET f == tree[d].files[i]
                IN  (f.size = 1000000 /\ ~HasBinaryExtension(f.name) /\ ~Unreadable(f))
                    => Append(d, f.name) \in PathsInFlight

C6_Witness ==
    /\ pc = "done"
    /\ \E i \in 1..Len(tree[<<>>].files) :
          /\ tree[<<>>].files[i].size = 1000000
          /\ <<tree[<<>>].files[i].name>> \in PathsInFlight

C7_NeverRaises ==
    /\ pc # "raised"
    /\ Finished =>
          \A q \in QualifyingFiles :
             Append(q[1], tree[q[1]].files[q[2]].name) \in PathsInFlight

C7_SkipStep ==
    (/\ pc = "file"
     /\ files # <<>>
     /\ Unreadable(FileOfPath(relpath(join(root, Head(files)), directory))))
    => /\ pc' = "file"
       /\ files' = Tail(files)
       /\ UNCHANGED <<buffers, upserts, store>>

(* C7: a file that cannot be stat-ed, opened or decoded as UTF-8 never     *)
(* makes the run raise, adds nothing to the buffer, and every qualifying   *)
(* file of the tree is still sent to the store.                            *)
C7_UnreadableSkipped == []C7_NeverRaises /\ [][C7_SkipStep]_vars

C7_Witness ==
    /\ pc = "done"
    /\ \E i, j \in 1..Len(tree[<<>>].files) :
          /\ i < j
          /\ ~tree[<<>>].files[i].utf8
          /\ tree[<<>>].files[i].size = 10
          /\ ~HasBinaryExtension(tree[<<>>].files[i].name)
          /\ PassesFilters(tree[<<>>].files[j])
          /\ <<tree[<<>>].files[j].name>> \in PathsInFlight
          /\ <<tree[<<>>].files[i].name>> \notin PathsInFlight

(* C8: after an index run that started on an empty store the reported      *)
(* count is the number of files of the tree that pass all filters.         *)
C8_CountIsQualifying ==
    (pc = "done" /\ countBefore = 0) => total = <<Cardinality(QualifyingFiles)>>

C8_Witness ==
    /\ pc = "done"
    /\ countBefore = 0
    /\ total = <<1>>
    /\ Len(tree[<<>>].files) = 1
    /\ \E i \in 1..Len(tree[<<N_docs>>].files) :
          /\ tree[<<N_docs>>].files[i].name = <<"b",".","p","n","g">>
          /\ tree[<<N_docs>>].files[i].size = 10

C9_StoreStep ==
    /\ DOMAIN store \subseteq DOMAIN store'
    /\ Cardinality(DOMAIN store') >= Cardinality(DOMAIN store)

(* C9: no step removes a record: the set of ids only grows and the count   *)
(* never decreases, so the record of a file removed from disk stays.       *)
C9_NoDeletion == [][C9_StoreStep]_vars

C9_Witness ==
    /\ pc = "done"
    /\ runs = 2
    /\ \E i \in DOMAIN store :
          LET rel == store[i].metadata.path
          IN  \A k \in 1..Len(tree[SubSeq(rel, 1, Len(rel) - 1)].files) :
                 tree[SubSeq(rel, 1, Len(rel) - 1)].files[k].name # rel[Len(rel)]

IsPrefix(s, t) == Len(s) <= Len(t) /\ \A i \in 1..Len(s) : s[i] = t[i]

Buffered ==
    [i \in 1..Len(ids) |->
        [id |-> ids[i], document |-> documents[i], metadata |-> metadatas[i]]]

(* C10: the batches of a run, concatenated in call order, are exactly the  *)
(* qualifying files in traversal order: none lost, none sent twice, the    *)
(* three lists of a batch of equal length and aligned, no id twice in a    *)
(* batch.                                                                  *)
C10_ExactlyOnce ==
    /\ Len(ids) = Len(documents) /\ Len(ids) = Len(metadatas)
    /\ \A k \in 1..Len(upserts) :
          /\ Aligned(upserts[k])
          /\ \A i, j \in 1..Len(upserts[k].ids) :
                upserts[k].ids[i] = upserts[k].ids[j] => i = j
    /\ (Running /\ ~Finished) => IsPrefix(Sent \o Buffered, ExpectedIn(<<>>))
    /\ Finished => Sent = ExpectedIn(<<>>)

C10_Witness ==
    /\ pc = "done"
    /\ Len(upserts) = 2
    /\ SizeOfBatch(2) < 50
    /\ Len(Sent) < Len(tree[<<>>].files) + Len(tree[<<N_docs>>].files)
    /\ Sent = ExpectedIn(<<>>)

====
